---- MODULE Spec2Model ----
(***************************************************************************)
(* Stream Translator of the chat route handler (POST /api/chat).           *)
(* Two handler files exist: src/unnamed/part_000 (safeEnqueue/safeClose)   *)
(* and src/frontend/my-app/app/api/chat/route.ts (bare controller calls).  *)
(* Case A: text/plain backend stream, re-framed line by line by pump.      *)
(* Case B: single JSON backend response, re-expanded into protocol frames. *)
(* Bytes and code points are integers; a JSON text is a sequence of atoms. *)
(* Before the fetch POST validates the request body and builds the backend *)
(* payload.  The client is modelled next to it: the thought card hook      *)
(* (src/unnamed/part_004), the step manager (src/unnamed/part_005), the    *)
(* effect of ToolFallback (src/unnamed/part_001) and handleStreamingData   *)
(* (components/assistant-ui/thought-card-context.tsx).                     *)
(***************************************************************************)
EXTENDS Integers, Sequences, FiniteSets, TLC

\* longest backend byte stream (Case A)
MaxLen == 4

\* the route handler files
Handlers == {"part_000", "route_ts"}

\* the two requests served side by side with the same backend bytes
Pumps == {1, 2}

\* backend bytes: LF, space, 'd', and the two bytes of U+00E9
InputBytes == {10, 32, 100, 195, 169}

RECURSIVE SeqsUpTo(_, _)
SeqsUpTo(S, n) ==
  IF n = 0 THEN {<<>>}
  ELSE LET shorter == SeqsUpTo(S, n - 1)
       IN shorter \cup {Append(s, x) : s \in {t \in shorter : Len(t) = n - 1}, x \in S}


RECURSIVE Flatten(_)
Flatten(ss) == IF ss = <<>> THEN <<>> ELSE Head(ss) \o Flatten(Tail(ss))

--------------------------------------------------------------------------
\* new TextDecoder().decode(value): UTF-8, non-streaming, non-fatal.  A lead
\* byte whose continuation byte is not in the same chunk decodes to U+FFFD,
\* and so does a stray continuation byte.
RECURSIVE TextDecoderWhole(_)
TextDecoderWhole(bytes) ==
  IF bytes = <<>> THEN <<>>
  ELSE LET b == Head(bytes) IN
    IF b < 128 THEN <<b>> \o TextDecoderWhole(Tail(bytes))
    ELSE IF b >= 194 /\ b <= 223 /\ Len(bytes) >= 2 /\ bytes[2] >= 128 /\ bytes[2] <= 191
      THEN <<(b - 192) * 64 + (bytes[2] - 128)>> \o TextDecoderWhole(Tail(Tail(bytes)))
    ELSE <<65533>> \o TextDecoderWhole(Tail(bytes))

TextDecoder(bytes) == TextDecoderWhole(bytes)

\* new TextEncoder().encode(text): UTF-8 of code points below 65536
RECURSIVE TextEncoder(_)
TextEncoder(text) ==
  IF text = <<>> THEN <<>>
  ELSE LET c == Head(text) IN
    (IF c < 128 THEN <<c>>
     ELSE IF c < 2048 THEN <<192 + (c \div 64), 128 + (c % 64)>>
     ELSE <<224 + (c \div 4096), 128 + ((c \div 64) % 64), 128 + (c % 64)>>)
    \o TextEncoder(Tail(text))

\* the backend bodies: the well-formed UTF-8 byte sequences up to MaxLen
Inputs == {b \in SeqsUpTo(InputBytes, MaxLen) : TextEncoder(TextDecoderWhole(b)) = b}

\* String.prototype.split('\n')
RECURSIVE split(_)
split(text) ==
  IF \A i \in 1..Len(text) : text[i] # 10 THEN <<text>>
  ELSE LET i == CHOOSE k \in 1..Len(text) : text[k] = 10 /\ \A j \in 1..(k - 1) : text[j] # 10
       IN <<SubSeq(text, 1, i - 1)>> \o split(SubSeq(text, i + 1, Len(text)))

\* code points String.prototype.trim() strips
WhiteSpace == {9, 10, 11, 12, 13, 32, 160, 65279}

\* the truth value of line.trim(): some character is not white space
trim(text) == \E i \in 1..Len(text) : text[i] \notin WhiteSpace

--------------------------------------------------------------------------
\* JavaScript values.  A string is a sequence of atoms: "QUOTE", "BSL"
\* (backslash) and "LF" (line feed) are the characters JSON escapes, every
\* other atom stands for a run of ordinary characters.  A property name is
\* one atom.
Undefined == [t |-> "undefined"]
Str(s) == [t |-> "string", s |-> s]
Num(n) == [t |-> "number", n |-> n]
Obj(f) == [t |-> "object", f |-> f]
Arr(a) == [t |-> "array", a |-> a]
Bool(b) == [t |-> "boolean", b |-> b]
Null == [t |-> "null"]

\* obj[key] (obj.key): undefined when the object has no such property
Get(obj, key) ==
  IF obj.t = "object" /\ \E i \in 1..Len(obj.f) : obj.f[i][1] = key
  THEN obj.f[CHOOSE i \in 1..Len(obj.f) : obj.f[i][1] = key][2]
  ELSE Undefined

\* ToBoolean of the values that occur
Truthy(v) ==
  CASE v.t = "undefined" -> FALSE
    [] v.t = "string" -> v.s # <<>>
    [] v.t = "number" -> v.n # 0
    [] v.t = "boolean" -> v.b
    [] v.t = "null" -> FALSE
    [] OTHER -> TRUE

\* the quoted form of a string inside a JSON text
RECURSIVE escape(_)
escape(s) ==
  IF s = <<>> THEN <<>>
  ELSE (CASE Head(s) = "QUOTE" -> <<"BSL", "QUOTE">>
          [] Head(s) = "BSL" -> <<"BSL", "BSL">>
          [] Head(s) = "LF" -> <<"BSL", "n">>
          [] OTHER -> <<Head(s)>>) \o escape(Tail(s))

quote(s) == <<"QUOTE">> \o escape(s) \o <<"QUOTE">>

\* JSON.stringify(v): undefined for undefined, else the JSON text as a
\* string; a property whose value is undefined is left out
RECURSIVE JSONstringify(_)
RECURSIVE stringifyMembers(_, _)
RECURSIVE stringifyElements(_, _)
stringifyMembers(f, first) ==
  IF f = <<>> THEN <<>>
  ELSE LET v == JSONstringify(f[1][2]) IN
    IF v.t = "undefined" THEN stringifyMembers(Tail(f), first)
    ELSE (IF first THEN <<>> ELSE <<",">>) \o quote(<<f[1][1]>>) \o <<":">> \o v.s
         \o stringifyMembers(Tail(f), FALSE)

\* the elements of an array; an undefined element is written as null
stringifyElements(a, first) ==
  IF a = <<>> THEN <<>>
  ELSE LET v == JSONstringify(a[1]) IN
    (IF first THEN <<>> ELSE <<",">>)
    \o (IF v.t = "undefined" THEN <<"null">> ELSE v.s)
    \o stringifyElements(Tail(a), FALSE)

JSONstringify(v) ==
  CASE v.t = "undefined" -> Undefined
    [] v.t = "string" -> Str(quote(v.s))
    [] v.t = "number" -> Str(<<ToString(v.n)>>)
    [] v.t = "object" -> Str(<<"{">> \o stringifyMembers(v.f, TRUE) \o <<"}">>)
    [] v.t = "array" -> Str(<<"[">> \o stringifyElements(v.a, TRUE) \o <<"]">>)
    [] v.t = "boolean" -> Str(<<IF v.b THEN "true" ELSE "false">>)
    [] v.t = "null" -> Str(<<"null">>)

\* `${v}` in a template literal
template(v) == IF v.t = "undefined" THEN <<"undefined">> ELSE v.s

\* JSON.parse(text), by recursive descent from position i: [ok, v, i]
Digits == 0..9
ParseFail == [ok |-> FALSE, v |-> Undefined, i |-> 0]

RECURSIVE parseChars(_, _, _)
parseChars(text, i, acc) ==
  IF i > Len(text) THEN ParseFail
  ELSE CASE text[i] = "QUOTE" -> [ok |-> TRUE, v |-> Str(acc), i |-> i + 1]
         [] text[i] = "LF" -> ParseFail
         [] text[i] = "BSL" ->
              IF i + 1 > Len(text) THEN ParseFail
              ELSE CASE text[i + 1] = "QUOTE" -> parseChars(text, i + 2, Append(acc, "QUOTE"))
                     [] text[i + 1] = "BSL" -> parseChars(text, i + 2, Append(acc, "BSL"))
                     [] text[i + 1] = "n" -> parseChars(text, i + 2, Append(acc, "LF"))
                     [] OTHER -> ParseFail
         [] OTHER -> parseChars(text, i + 1, Append(acc, text[i]))

RECURSIVE parseValue(_, _)
RECURSIVE parseMembers(_, _, _)
RECURSIVE parseElements(_, _, _)
parseMembers(text, i, acc) ==
  IF i > Len(text) \/ text[i] # "QUOTE" THEN ParseFail
  ELSE LET k == parseChars(text, i + 1, <<>>) IN
    IF ~k.ok \/ Len(k.v.s) # 1 \/ k.i > Len(text) \/ text[k.i] # ":" THEN ParseFail
    ELSE LET v == parseValue(text, k.i + 1) IN
      IF ~v.ok \/ v.i > Len(text) THEN ParseFail
      ELSE LET f == Append(acc, <<k.v.s[1], v.v>>) IN
        CASE text[v.i] = "}" -> [ok |-> TRUE, v |-> Obj(f), i |-> v.i + 1]
          [] text[v.i] = "," -> parseMembers(text, v.i + 1, f)
          [] OTHER -> ParseFail

parseElements(text, i, acc) ==
  LET v == parseValue(text, i) IN
    IF ~v.ok \/ v.i > Len(text) THEN ParseFail
    ELSE CASE text[v.i] = "]" -> [ok |-> TRUE, v |-> Arr(Append(acc, v.v)), i |-> v.i + 1]
           [] text[v.i] = "," -> parseElements(text, v.i + 1, Append(acc, v.v))
           [] OTHER -> ParseFail

parseValue(text, i) ==
  IF i > Len(text) THEN ParseFail
  ELSE CASE text[i] = "QUOTE" -> parseChars(text, i + 1, <<>>)
         [] text[i] = "{" ->
              IF i + 1 <= Len(text) /\ text[i + 1] = "}"
              THEN [ok |-> TRUE, v |-> Obj(<<>>), i |-> i + 2]
              ELSE parseMembers(text, i + 1, <<>>)
         [] text[i] = "[" ->
              IF i + 1 <= Len(text) /\ text[i + 1] = "]"
              THEN [ok |-> TRUE, v |-> Arr(<<>>), i |-> i + 2]
              ELSE parseElements(text, i + 1, <<>>)
         [] \E n \in Digits : text[i] = ToString(n) ->
              [ok |-> TRUE, v |-> Num(CHOOSE n \in Digits : text[i] = ToString(n)), i |-> i + 1]
         [] text[i] = "true" -> [ok |-> TRUE, v |-> Bool(TRUE), i |-> i + 1]
         [] text[i] = "false" -> [ok |-> TRUE, v |-> Bool(FALSE), i |-> i + 1]
         [] text[i] = "null" -> [ok |-> TRUE, v |-> Null, i |-> i + 1]
         [] OTHER -> ParseFail

\* the white space characters of a string of atoms
Blank == {"SP", "LF"}

\* String.prototype.trim() on a string of atoms
RECURSIVE trimStart(_)
trimStart(text) ==
  IF text # <<>> /\ Head(text) \in Blank THEN trimStart(Tail(text)) ELSE text

RECURSIVE trimEnd(_)
trimEnd(text) ==
  IF text # <<>> /\ text[Len(text)] \in Blank
  THEN trimEnd(SubSeq(text, 1, Len(text) - 1)) ELSE text

trimText(text) == trimEnd(trimStart(text))

\* white space is allowed around the value (between tokens it does not occur)
JSONparse(text) ==
  LET t == trimText(text)
      r == parseValue(t, 1)
  IN IF r.ok /\ r.i = Len(t) + 1 THEN r ELSE ParseFail

--------------------------------------------------------------------------
VARIABLES
  handler,   \* the handler file serving the requests
  phase,     \* POST's position: "request", "fetch", "A" (pump), "B" (parts), "error"
  rq,        \* the request body, the backend calls made, why POST failed
  input,     \* Case A: the bytes of the backend body
  pump,      \* Case A: per request, the closure state of start(controller)
  data,      \* Case B: the parsed backend JSON
  seq,       \* Case B: the state of processPartsSequentially and its stream
  http,      \* the Response POST returned
  thoughtCard, \* client: the state of useAIThoughtCard and its timerRef
  rendered,    \* client: isVisible and status as the latest render saw them
  registry,    \* client: stepData and finalAnswer of the step manager
  tool,        \* client: the tool call ToolFallback is mounted for
  stepManagers \* client: the StepManager components and their listeners

\* the translator's variables and the client's
tvars == <<handler, phase, rq, input, pump, data, seq, http>>
cvars == <<thoughtCard, rendered, registry, tool, stepManagers>>
vars ==
  <<handler, phase, rq, input, pump, data, seq, http, thoughtCard, rendered, registry, tool,
    stepManagers>>

\* pump[p]: pc "idle" | "reading" (a reader.read() is pending) | "done" |
\* "rejected" (the promise of pump() rejected); pos: bytes read so far;
\* stream: "none" | "readable" | "closed" | "cancelled" | "errored";
\* out: what controller.enqueue accepted, final = enqueued after done;
\* reads: reader.read() calls issued; failedAt: the stream's state when a
\* read rejected; errs: error signals (stream errored, promise rejected);
\* threw: an exception is propagating (only inside one step).
IdlePump ==
  [pc |-> "idle", pos |-> 0, buffer |-> <<>>, isClosed |-> FALSE, stream |-> "none",
   out |-> <<>>, reads |-> 0, failedAt |-> "none", errs |-> 0, threw |-> FALSE]

StartPump == [IdlePump EXCEPT !.pc = "reading", !.stream = "readable", !.reads = 1]

\* controller.enqueue(data): a TypeError unless the stream is readable
controllerEnqueue(r, bytes, final) ==
  IF r.stream = "readable"
  THEN [r EXCEPT !.out = Append(@, [data |-> bytes, final |-> final])]
  ELSE [r EXCEPT !.threw = TRUE]

\* controller.close(): a TypeError unless the stream is readable
controllerClose(r) ==
  IF r.stream = "readable" THEN [r EXCEPT !.stream = "closed"] ELSE [r EXCEPT !.threw = TRUE]

\* controller.error(e): nothing unless the stream is readable
controllerError(r) ==
  IF r.stream = "readable" THEN [r EXCEPT !.stream = "errored", !.errs = @ + 1] ELSE r

safeEnqueue(r, bytes, final) ==
  IF ~r.isClosed
  THEN LET t == controllerEnqueue(r, bytes, final)
       IN IF t.threw THEN [r EXCEPT !.isClosed = TRUE] ELSE t
  ELSE r

safeClose(r) ==
  IF ~r.isClosed
  THEN LET t == controllerClose(r)
       IN IF t.threw THEN r ELSE [t EXCEPT !.isClosed = TRUE]
  ELSE r

\* the enqueue call of the pump in each handler file
enqueue(h, r, bytes, final) ==
  IF r.threw THEN r
  ELSE IF h = "part_000" THEN safeEnqueue(r, bytes, final)
  ELSE controllerEnqueue(r, bytes, final)

\* for (const line of lines) if (line.trim()) enqueue(encode(line + '\n'))
RECURSIVE enqueueLines(_, _, _)
enqueueLines(h, r, lines) ==
  IF lines = <<>> \/ r.threw THEN r
  ELSE enqueueLines(h,
         IF trim(Head(lines)) THEN enqueue(h, r, TextEncoder(Append(Head(lines), 10)), FALSE)
         ELSE r,
         Tail(lines))

\* the loop body after a read that delivered value
pumpChunk(h, r, value) ==
  LET chunk == TextDecoder(value)
      lines == split(r.buffer \o chunk)
  IN enqueueLines(h, [r EXCEPT !.buffer = lines[Len(lines)]], SubSeq(lines, 1, Len(lines) - 1))

\* catch (error) { ... }
pumpCatch(h, r) ==
  IF h = "part_000"
  THEN IF ~r.isClosed THEN [controllerError(r) EXCEPT !.isClosed = TRUE] ELSE r
  ELSE controllerError(r)

\* finally { ... }
pumpFinally(h, r) == IF h = "part_000" THEN safeClose(r) ELSE controllerClose(r)

\* leaving the try block, by break (caught = FALSE) or by an exception
pumpExit(h, r, caught) ==
  LET c == IF caught THEN pumpCatch(h, [r EXCEPT !.threw = FALSE]) ELSE r
      f == pumpFinally(h, c)
  IN [f EXCEPT !.pc = IF f.threw THEN "rejected" ELSE "done",
               !.errs = IF f.threw THEN @ + 1 ELSE @,
               !.threw = FALSE]

\* reader.read() resolves with the next n bytes
pumpRead(p, n) ==
  /\ phase = "A"
  /\ pump[p].pc = "reading"
  /\ pump[p].pos + n <= Len(input)
  /\ LET r == pump[p]
         t == pumpChunk(handler, [r EXCEPT !.pos = @ + n], SubSeq(input, r.pos + 1, r.pos + n))
     IN pump' = [pump EXCEPT ![p] =
                   IF t.threw THEN pumpExit(handler, t, TRUE) ELSE [t EXCEPT !.reads = @ + 1]]
  /\ UNCHANGED <<handler, phase, rq, input, data, seq, http>>
  /\ UNCHANGED cvars

\* reader.read() resolves with done
pumpDone(p) ==
  /\ phase = "A"
  /\ pump[p].pc = "reading"
  /\ pump[p].pos = Len(input)
  /\ LET r == pump[p]
         t == IF trim(r.buffer) THEN enqueue(handler, r, TextEncoder(r.buffer), TRUE) ELSE r
     IN pump' = [pump EXCEPT ![p] = pumpExit(handler, t, t.threw)]
  /\ UNCHANGED <<handler, phase, rq, input, data, seq, http>>
  /\ UNCHANGED cvars

\* reader.read() rejects (the backend connection breaks)
pumpReadFails(p) ==
  /\ phase = "A"
  /\ pump[p].pc = "reading"
  /\ pump' = [pump EXCEPT ![p] = pumpExit(handler, [pump[p] EXCEPT !.failedAt = pump[p].stream], TRUE)]
  /\ UNCHANGED <<handler, phase, rq, input, data, seq, http>>
  /\ UNCHANGED cvars

\* the consumer aborts the request: the runtime cancels the response stream
cancel(p) ==
  /\ phase = "A"
  /\ pump[p].stream = "readable"
  /\ pump' = [pump EXCEPT ![p].stream = "cancelled"]
  /\ UNCHANGED <<handler, phase, rq, input, data, seq, http>>
  /\ UNCHANGED cvars

\* fetch resolves, content-type text/plain: the stream is built, pump() starts
respondStream(bytes) ==
  /\ phase = "fetch"
  /\ phase' = "A"
  /\ input' = bytes
  /\ pump' = [pump EXCEPT ![1] = StartPump]
  /\ http' = [status |-> 200, body |-> <<"stream">>]
  /\ rq' = [rq EXCEPT !.bodyRead = TRUE]
  /\ UNCHANGED <<handler, data, seq>>
  /\ UNCHANGED cvars

\* the same backend bytes answer two requests, served side by side
respondStreamTwice(bytes) ==
  /\ phase = "fetch"
  /\ phase' = "A"
  /\ input' = bytes
  /\ pump' = [p \in Pumps |-> StartPump]
  /\ http' = [status |-> 200, body |-> <<"stream">>]
  /\ rq' = [rq EXCEPT !.bodyRead = TRUE]
  /\ UNCHANGED <<handler, data, seq>>
  /\ UNCHANGED cvars

--------------------------------------------------------------------------
\* Case B: the backend answers with one JSON object
MaxParts == 2

S1 == <<"Hi">>
S2 == <<"say", "QUOTE", "LF">>

TextPart(text) == Obj(<<<<"type", Str(<<"text">>)>>, <<"text", text>>>>)
CardPart(cardType, content, step) ==
  Obj(<<<<"type", Str(<<"thought_card">>)>>, <<"card_type", Str(<<cardType>>)>>,
        <<"content", Str(content)>>, <<"step", Num(step)>>>>)

PartValues ==
  {TextPart(Str(S1)), TextPart(Str(S2)), Obj(<<<<"type", Str(<<"text">>)>>>>),
   CardPart("thinking", S1, 1), CardPart("final_answer", S2, 2),
   Obj(<<<<"type", Str(<<"image">>)>>>>)}

\* {ok, parts?, message?, usage?, error?}
OkResponses ==
  [ok : {TRUE},
   parts : {Undefined} \cup {Arr(a) : a \in SeqsUpTo(PartValues, MaxParts)},
   message : {Undefined, Obj(<<<<"content", Str(S1)>>>>)},
   usage : {Undefined, Obj(<<<<"tokens", Num(5)>>>>)},
   error : {Undefined}]

ErrResponses ==
  [ok : {FALSE},
   parts : {Undefined, Arr(<<TextPart(Str(S1))>>)},
   message : {Undefined},
   usage : {Undefined},
   error : {Undefined, Obj(<<>>), Obj(<<<<"message", Str(<<>>)>>>>),
            Obj(<<<<"message", Str(<<"rate limited">>)>>>>),
            Obj(<<<<"message", Str(S2)>>>>)}]

NoData == [ok |-> FALSE, parts |-> Undefined, message |-> Undefined, usage |-> Undefined,
           error |-> Undefined]

\* seq: pc "idle" | "waiting" (in a setTimeout await) | "done" | "failed"
\* (the promise rejected and the .catch handler ran); index: the loop index,
\* from 0 as in the source; stream, out, errs, threw as for pump
IdleSeq ==
  [pc |-> "idle", index |-> 0, stream |-> "none", out |-> <<>>, errs |-> 0, threw |-> FALSE]

\* the backend's message dropped
errorMessageDropped(d) == <<"Backend returned error">>

\* data.error?.message || 'Backend returned error'
errorMessage(d) ==
  LET m == Get(d.error, "message")
  IN IF Truthy(m) THEN m.s ELSE <<"Backend returned error">>

\* JSON.stringify({ error: error.message }) of the status 500 response
errorBody(msg) == JSONstringify(Obj(<<<<"error", Str(msg)>>>>)).s

\* the error answered as if it were a success
errorResponseOk(msg) == [status |-> 200, body |-> errorBody(msg)]

\* catch (error) { return new Response(JSON.stringify({error}), {status: 500}) }
errorResponse(msg) == [status |-> 500, body |-> errorBody(msg)]

\* `0:${JSON.stringify(text)}\n`
textChunk(text) == <<"0", ":">> \o template(JSONstringify(text)) \o <<"LF">>

\* a card sent as a text frame
toolCallAsText(part, index) == textChunk(JSONstringify(part))

\* `9:${JSON.stringify({toolCallId, toolName, args: JSON.stringify(part)})}\n`
toolCall(part, index) ==
  <<"9", ":">>
  \o template(JSONstringify(Obj(<<<<"toolCallId", Str(<<"thought_", ToString(index)>>)>>,
                                  <<"toolName", Str(<<"thought_card">>)>>,
                                  <<"args", JSONstringify(part)>>>>)))
  \o <<"LF">>

\* `d:{"finishReason":"stop","usage":${JSON.stringify(data.usage)}}\n`
finishChunk(d) ==
  <<"d", ":", "{">> \o quote(<<"finishReason">>) \o <<":">> \o quote(<<"stop">>) \o <<",">>
  \o quote(<<"usage">>) \o <<":">> \o template(JSONstringify(d.usage)) \o <<"}", "LF">>

\* data.parts && data.parts.length > 0
hasParts(d) == d.parts.t = "array" /\ Len(d.parts.a) > 0

\* the stream closed without its terminal frame
finishWithoutChunk(d, s) == [controllerClose(s) EXCEPT !.pc = "done"]

\* enqueue finishChunk; controller.close()
finish(d, s) ==
  LET e == controllerEnqueue(s, finishChunk(d), TRUE)
  IN IF e.threw THEN e ELSE [controllerClose(e) EXCEPT !.pc = "done"]

\* processPartsSequentially from loop index s.index up to its next await,
\* its return or its throw
RECURSIVE runParts(_, _)
runParts(d, s) ==
  IF hasParts(d)
  THEN IF s.index >= Len(d.parts.a) THEN finish(d, s)
       ELSE LET part == d.parts.a[s.index + 1]
                type == Get(part, "type")
                next == [s EXCEPT !.index = @ + 1, !.pc = "waiting"]
            IN CASE type = Str(<<"thought_card">>) ->
                      controllerEnqueue(next, toolCall(part, s.index), FALSE)
                 [] type = Str(<<"text">>) ->
                      controllerEnqueue(next, textChunk(Get(part, "text")), FALSE)
                 [] OTHER -> runParts(d, [s EXCEPT !.index = @ + 1])
  ELSE IF d.message.t = "undefined" THEN [s EXCEPT !.threw = TRUE]
       ELSE LET e == controllerEnqueue(s, textChunk(Get(d.message, "content")), FALSE)
            IN IF e.threw THEN e ELSE finish(d, e)

\* processPartsSequentially().catch(error => controller.error(error))
processPartsSequentially(d, s) ==
  LET r == runParts(d, s)
  IN IF r.threw THEN [controllerError([r EXCEPT !.threw = FALSE]) EXCEPT !.pc = "failed"] ELSE r

\* fetch resolves with JSON: !data.ok throws into POST's catch (status 500),
\* else the stream is built and start() runs up to the first await
respondJson(d) ==
  /\ phase = "fetch"
  /\ data' = d
  /\ rq' = [rq EXCEPT !.bodyRead = TRUE, !.cause = IF d.ok THEN @ ELSE "ok_false"]
  /\ IF ~d.ok
     THEN /\ phase' = "error"
          /\ http' = errorResponse(errorMessage(d))
          /\ seq' = seq
     ELSE /\ phase' = "B"
          /\ http' = [status |-> 200, body |-> <<"stream">>]
          /\ seq' = processPartsSequentially(d, [IdleSeq EXCEPT !.stream = "readable"])
  /\ UNCHANGED <<handler, input, pump>>
  /\ UNCHANGED cvars

\* a pacing timer fires: the loop goes on
seqResume ==
  /\ phase = "B"
  /\ seq.pc = "waiting"
  /\ seq' = processPartsSequentially(data, seq)
  /\ UNCHANGED <<handler, phase, rq, input, pump, data, http>>
  /\ UNCHANGED cvars

\* the consumer aborts the request while frames are still being paced
seqCancel ==
  /\ phase = "B"
  /\ seq.stream = "readable"
  /\ seq' = [seq EXCEPT !.stream = "cancelled"]
  /\ UNCHANGED <<handler, phase, rq, input, pump, data, http>>
  /\ UNCHANGED cvars


--------------------------------------------------------------------------
\* The request stage of POST: the body is read and validated, the backend
\* payload is built and the one fetch is issued.
SystemText == <<"Be brief">>

Msg(role, content) == Obj(<<<<"role", Str(<<role>>)>>, <<"content", content>>>>)

\* message lists of the client: plain text, multi-part content, and a
\* message with role system in the middle
MessageLists ==
  {<<Msg("user", Str(S1))>>,
   <<Msg("user", Arr(<<TextPart(Str(S1)), TextPart(Str(S2))>>)), Msg("assistant", Str(<<"ok">>))>>,
   <<Msg("user", Str(S1)), Msg("system", Str(<<"Be kind">>)), Msg("user", Str(S2))>>,
   <<Msg("assistant", Arr(<<TextPart(Str(S1)),
                            Obj(<<<<"type", Str(<<"tool-call">>)>>, <<"toolName", Str(<<"thought_card">>)>>>>),
                            Obj(<<<<"type", Str(<<"text">>)>>, <<"content", Str(S2)>>>>),
                            Obj(<<<<"type", Str(<<"text">>)>>, <<"text", Str(<<>>)>>,
                                  <<"content", Str(<<"ok">>)>>>>)>>))>>}

\* body: JSON.stringify({...JSON.parse(options.body), agent_mode})
RequestBody(messages, system, mode) ==
  JSONstringify(Obj(<<<<"messages", Arr(messages)>>, <<"system", system>>,
                      <<"agent_mode", Str(<<mode>>)>>>>)).s

WellFormedBodies ==
  {RequestBody(m, s, a) : m \in MessageLists, s \in {Undefined, Str(<<>>), Str(SystemText)},
                          a \in {"chat", "agent"}}

\* no body, white space, a truncated text, JSON without messages
MalformedBodies == {<<>>, <<"SP">>, <<"SP", "LF">>, <<"{">>, <<"{", "}">>, <<"null">>}

RequestBodies == WellFormedBodies \cup MalformedBodies

\* the bodies the translation of the answer is explored with
SomeBodies == {<<>>, RequestBody(<<Msg("user", Str(S1))>>, Undefined, "chat")}

Rejected(msg) == [ok |-> FALSE, v |-> Undefined, msg |-> msg]

\* a body that does not parse read as the empty object
readBodyLenient(h, body) ==
  LET r == JSONparse(body)
  IN [ok |-> TRUE, v |-> IF r.ok THEN r.v ELSE Obj(<<>>), msg |-> <<>>]

\* part_000: req.text(), the emptiness check, JSON.parse in try/catch;
\* route.ts: req.json(), whose SyntaxError carries the parser's message
readBody(h, body) ==
  LET r == JSONparse(body) IN
    IF h = "part_000"
    THEN IF body = <<>> \/ trimText(body) = <<>> THEN Rejected(<<"Request body is empty">>)
         ELSE IF r.ok THEN [ok |-> TRUE, v |-> r.v, msg |-> <<>>]
         ELSE Rejected(<<"Invalid JSON in request body">>)
    ELSE IF r.ok THEN [ok |-> TRUE, v |-> r.v, msg |-> <<>>]
         ELSE Rejected(<<"Unexpected end of JSON input">>)

\* destructuring requestData and messages.map throw a TypeError unless
\* requestData is not null and messages is an array
hasMessages(requestData) ==
  requestData.t # "null" /\ Get(requestData, "messages").t = "array"

\* c.text
textOnly(c) == Get(c, "text")

\* c.text || c.content
partText(c) == IF Truthy(Get(c, "text")) THEN Get(c, "text") ELSE Get(c, "content")

\* Array.prototype.join(''): undefined and null elements give '', a number
\* or boolean its text, an object '[object Object]'
RECURSIVE join(_)
join(a) ==
  IF a = <<>> THEN <<>>
  ELSE (CASE Head(a).t = "string" -> Head(a).s
          [] Head(a).t = "number" -> <<ToString(Head(a).n)>>
          [] Head(a).t = "boolean" -> <<ToString(Head(a).b)>>
          [] Head(a).t = "object" -> <<"[object Object]">>
          [] OTHER -> <<>>)
       \o join(Tail(a))

\* messages.map(msg => ({role, content}))
backendMessages(messages) ==
  [k \in 1..Len(messages) |->
     LET content == Get(messages[k], "content") IN
       Obj(<<<<"role", Get(messages[k], "role")>>,
             <<"content", IF content.t = "array"
                          THEN Str(join([j \in 1..Len(content.a) |-> partText(content.a[j])]))
                          ELSE content>>>>)]

\* the system message put behind the others
systemLast(system, messages) ==
  IF Truthy(system) THEN Append(messages, Msg("system", system)) ELSE messages

\* if (system) payload.messages.unshift({role: 'system', content: system})
unshift(system, messages) ==
  IF Truthy(system) THEN <<Msg("system", system)>> \o messages ELSE messages

\* the mode the request asked for
agentModeOfRequest(requestData) == Get(requestData, "agent_mode")

\* agent_mode: 'agent'
agentMode(requestData) == Str(<<"agent">>)

\* body: JSON.stringify(payload)
fetchBody(requestData) ==
  JSONstringify(Obj(<<
    <<"messages", Arr(unshift(Get(requestData, "system"),
                              backendMessages(Get(requestData, "messages").a)))>>,
    <<"provider", Str(<<"openai">>)>>,
    <<"model", Str(<<"gpt-4o-mini">>)>>,
    <<"agent_mode", agentMode(requestData)>>,
    <<"settings", Obj(<<<<"showCost", Bool(TRUE)>>, <<"contextCompression", Bool(FALSE)>>>>)>>
  >>)).s

NoRequest == [body |-> <<>>, calls |-> <<>>, cause |-> "none", bodyRead |-> FALSE]

\* POST up to its await fetch(...), or to its catch
POST(body) ==
  /\ phase = "request"
  /\ LET r == readBody(handler, body) IN
       IF ~r.ok
       THEN /\ phase' = "error"
            /\ http' = errorResponse(r.msg)
            /\ rq' = [rq EXCEPT !.body = body, !.cause = "body"]
       ELSE IF ~hasMessages(r.v)
       THEN /\ phase' = "error"
            /\ http' = errorResponse(<<"Cannot read properties of undefined">>)
            /\ rq' = [rq EXCEPT !.body = body, !.cause = "shape"]
       ELSE /\ phase' = "fetch"
            /\ http' = http
            /\ rq' = [rq EXCEPT !.body = body, !.calls = Append(@, fetchBody(r.v))]
  /\ UNCHANGED <<handler, input, pump, data, seq>>
  /\ UNCHANGED cvars

\* the statuses the backend refuses with
BackendStatuses == {404, 500, 503}

\* if (!response.ok) throw new Error(`Backend error: ${response.status}`)
respondStatus(status) ==
  /\ phase = "fetch"
  /\ phase' = "error"
  /\ http' = errorResponse(<<"Backend error: ", ToString(status)>>)
  /\ rq' = [rq EXCEPT !.cause = "status"]
  /\ UNCHANGED <<handler, input, pump, data, seq>>
  /\ UNCHANGED cvars

\* fetch rejects: the backend cannot be reached
fetchFails ==
  /\ phase = "fetch"
  /\ phase' = "error"
  /\ http' = errorResponse(<<"fetch failed">>)
  /\ rq' = [rq EXCEPT !.cause = "network"]
  /\ UNCHANGED <<handler, input, pump, data, seq>>
  /\ UNCHANGED cvars


--------------------------------------------------------------------------
\* The client: useAIThoughtCard (ThoughtCardState), the step manager
\* (StepRegistry), the effect of ToolFallback and handleStreamingData.
\* State setters take effect in call order; what a closure reads of the
\* state (isVisible, status) is what the latest render saw.  A step's id and
\* timestamp are fresh values and are left out.

\* most steps of one thought card, and the seconds its timer counts
MaxSteps == 2
MaxTime == 1

\* useState(...) initial values; timer: timerRef.current is set
InitialThoughtCard ==
  [isVisible |-> FALSE, status |-> "processing", progress |-> 0, thinkingTime |-> 0,
   steps |-> <<>>, liveText |-> Str(<<>>), isTyping |-> FALSE, fileWriting |-> Null,
   timer |-> FALSE]

startThinking(tc, initialText) ==
  [tc EXCEPT !.timer = TRUE, !.isVisible = TRUE, !.status = "processing", !.progress = 0,
             !.thinkingTime = 0, !.steps = <<>>,
             !.liveText = IF Truthy(initialText) THEN initialText ELSE Str(<<>>),
             !.isTyping = TRUE]

\* setSteps(prev => [...prev, newStep])
addStep(tc, text, meta, type) ==
  [tc EXCEPT !.steps = Append(@, [text |-> text, meta |-> meta, type |-> type])]

updateLiveText(tc, text, typing) == [tc EXCEPT !.liveText = text, !.isTyping = typing]

updateFileWriting(tc, fileData) == [tc EXCEPT !.fileWriting = fileData]

setProgress(tc, progress) == [tc EXCEPT !.progress = progress]

\* complete without setStatus('completed')
completeKeepsStatus(tc) == [tc EXCEPT !.progress = 100, !.isTyping = FALSE]

complete(tc) == [tc EXCEPT !.status = "completed", !.progress = 100, !.isTyping = FALSE]

\* reset without setFileWriting(null)
resetKeepsFile(tc) ==
  [tc EXCEPT !.timer = FALSE, !.isVisible = FALSE, !.status = "processing", !.progress = 0,
             !.thinkingTime = 0, !.steps = <<>>, !.liveText = Str(<<>>), !.isTyping = FALSE]

reset(tc) ==
  [tc EXCEPT !.timer = FALSE, !.isVisible = FALSE, !.status = "processing", !.progress = 0,
             !.thinkingTime = 0, !.steps = <<>>, !.liveText = Str(<<>>), !.isTyping = FALSE,
             !.fileWriting = Null]

\* what a render hands to the closures it creates
view(tc) == [isVisible |-> tc.isVisible, status |-> tc.status]

\* obj[key] = value
Set(obj, key, value) ==
  IF \E i \in 1..Len(obj.f) : obj.f[i][1] = key
  THEN Obj([i \in 1..Len(obj.f) |-> IF obj.f[i][1] = key THEN <<key, value>> ELSE obj.f[i]])
  ELSE Obj(Append(obj.f, <<key, value>>))

\* Map.prototype.get / set; a Map is the sequence of its <<key, value>> pairs
mapGet(m, key) ==
  IF \E i \in 1..Len(m) : m[i][1] = key
  THEN m[CHOOSE i \in 1..Len(m) : m[i][1] = key][2]
  ELSE Undefined

mapSet(m, key, value) ==
  IF \E i \in 1..Len(m) : m[i][1] = key
  THEN [i \in 1..Len(m) |-> IF m[i][1] = key THEN <<key, value>> ELSE m[i]]
  ELSE Append(m, <<key, value>>)

\* const stepData = new Map(); let finalAnswer = null
InitialRegistry == [stepData |-> <<>>, finalAnswer |-> Null]

\* the registry left as it is
clearNothing(reg) == reg

clearAllSteps(reg) == [reg EXCEPT !.stepData = <<>>, !.finalAnswer = Null]

addStepData(reg, step, cardType, d) ==
  IF cardType = Str(<<"final_answer">>)
  THEN [reg EXCEPT !.finalAnswer = Get(d, "content")]
  ELSE LET found == mapGet(reg.stepData, step)
           existing == IF Truthy(found) THEN found ELSE Obj(<<>>)
           entry ==
             CASE cardType = Str(<<"thinking">>) -> Set(existing, "thinking", Get(d, "content"))
               [] cardType = Str(<<"tool_execution">>) ->
                    Set(existing, "toolExecution",
                        Obj(<<<<"tool_name", Get(d, "tool_name")>>,
                              <<"tool_args", Get(d, "tool_args")>>,
                              <<"content", Get(d, "content")>>>>))
               [] cardType = Str(<<"tool_result">>) ->
                    Set(existing, "toolResult",
                        Obj(<<<<"tool_name", Get(d, "tool_name")>>,
                              <<"result", Get(d, "result")>>,
                              <<"content", Get(d, "content")>>>>))
               [] OTHER -> existing
       IN [reg EXCEPT !.stepData = mapSet(@, step, entry)]

\* one call of the effect on the hook or the step manager
Call(name, type) == [call |-> name, type |-> type]

\* the effect returning early, or its catch: nothing was called
Skip(tc, reg) == [tc |-> tc, reg |-> reg, log |-> <<>>]

\* the calls of that name in the log of an effect run
calls(log, name) == {k \in 1..Len(log) : log[k].call = name}

\* the StepManager components that can be on the page
Managers == {1, 2}

\* StepManager before its effect has subscribed: useState initial values;
\* listening: updateSteps is in stepListeners; calls: the calls of updateSteps
\* during the latest run of ToolFallback's effect
InitialStepManager ==
  [listening |-> FALSE, steps |-> <<>>, currentFinalAnswer |-> Null,
   isProcessComplete |-> FALSE, isProcessCollapsed |-> FALSE, calls |-> 0]

\* updateSteps of StepManager; its closure's isProcessComplete is the value of
\* the first render, false
updateSteps(mgr, reg) ==
  LET done == Truthy(reg.finalAnswer)
      cleared == reg.stepData = <<>> /\ ~Truthy(reg.finalAnswer)
  IN [mgr EXCEPT !.steps = reg.stepData,
                 !.currentFinalAnswer = reg.finalAnswer,
                 !.isProcessComplete = IF done THEN TRUE ELSE IF cleared THEN FALSE ELSE @,
                 !.isProcessCollapsed = IF done THEN TRUE ELSE IF cleared THEN FALSE ELSE @,
                 !.calls = @ + 1]

\* no listener is called
forEachNothing(mgrs, reg) == mgrs

\* stepListeners.forEach(listener => listener()), the registry being reg
forEachListener(mgrs, reg) ==
  [m \in DOMAIN mgrs |-> IF mgrs[m].listening THEN updateSteps(mgrs[m], reg) ELSE mgrs[m]]

\* the listeners as a run e of the effect leaves them: clearAllSteps calls
\* them once it has cleared the registry, addStepData once it has written
notified(mgrs, reg, e) ==
  LET m0 == [m \in DOMAIN mgrs |-> [mgrs[m] EXCEPT !.calls = 0]]
      m1 == IF calls(e.log, "clearAllSteps") # {}
            THEN forEachListener(m0, clearAllSteps(reg)) ELSE m0
  IN IF calls(e.log, "addStepData") # {} THEN forEachListener(m1, e.reg) ELSE m1

\* the step added twice
addStepOfCardTwice(card, tc) ==
  LET content == Get(card, "content")
      meta == Get(card, "tool_name")
  IN [tc |-> addStep(addStep(tc, content, meta, "thinking"), content, meta, "thinking"),
      log |-> <<Call("addStep", "thinking"), Call("addStep", "thinking")>>]

\* the switch on card_type
addStepOfCard(card, tc) ==
  LET cardType == Get(card, "card_type")
      content == Get(card, "content")
      meta == Get(card, "tool_name")
  IN CASE cardType = Str(<<"thinking">>) ->
            [tc |-> addStep(tc, content, meta, "thinking"), log |-> <<Call("addStep", "thinking")>>]
       [] cardType = Str(<<"executing">>) ->
            [tc |-> addStep(tc, content, meta, "executing"), log |-> <<Call("addStep", "executing")>>]
       [] cardType = Str(<<"final_answer">>) ->
            [tc |-> complete(addStep(tc, content, Undefined, "complete")),
             log |-> <<Call("addStep", "complete"), Call("complete", "")>>]
       [] OTHER ->
            [tc |-> addStep(tc, content, meta, "step"), log |-> <<Call("addStep", "step")>>]

\* the card processed whatever fields it has
processAnyCard(card, isVisible, tc, reg) ==
  [tc |-> addStep(tc, Get(card, "content"), Get(card, "tool_name"), "step"),
   reg |-> addStepData(reg, Get(card, "step"), Get(card, "card_type"), card),
   log |-> <<Call("addStep", "step"), Call("addStepData", "")>>]

\* the effect from the parsed card on; isVisible is the closure's value
processCard(card, isVisible, tc, reg) ==
  IF ~Truthy(card) \/ ~Truthy(Get(card, "content")) \/ ~Truthy(Get(card, "card_type"))
  THEN Skip(tc, reg)
  ELSE IF Get(card, "content").t # "string" THEN Skip(tc, reg)
  ELSE LET cardType == Get(card, "card_type")
           first == Get(card, "step") = Num(1) /\ cardType = Str(<<"thinking">>)
           start == ~isVisible /\ cardType = Str(<<"thinking">>)
           t1 == IF first THEN reset(tc) ELSE tc
           g1 == IF first THEN clearAllSteps(reg) ELSE reg
           t2 == IF start THEN startThinking(t1, Str(<<"Starting analysis...">>)) ELSE t1
           a == addStepOfCard(card, t2)
       IN [tc |-> a.tc,
           reg |-> addStepData(g1, Get(card, "step"), cardType, card),
           log |-> (IF first THEN <<Call("clearAllSteps", ""), Call("reset", "")>> ELSE <<>>)
                   \o (IF start THEN <<Call("startThinking", "")>> ELSE <<>>)
                   \o a.log \o <<Call("addStepData", "")>>]

\* the argument text parsed once, whatever it parses to
parseOnce(argsText) ==
  LET trimmed == trimText(argsText) IN
    IF argsText = <<>> \/ trimmed = <<>> THEN ParseFail
    ELSE IF Head(trimmed) # "{" /\ Head(trimmed) # "QUOTE" THEN ParseFail
    ELSE JSONparse(trimmed)

\* parsedCardData of the effect: the argument text skipped (ok FALSE) when it
\* is empty, white space, does not start with { or ", or fails a parse;
\* parsed, and parsed again when the first parse gives a string
parsedCardData(argsText) ==
  LET trimmed == trimText(argsText) IN
    IF argsText = <<>> \/ trimmed = <<>> THEN ParseFail
    ELSE IF Head(trimmed) # "{" /\ Head(trimmed) # "QUOTE" THEN ParseFail
    ELSE LET parsed == JSONparse(trimmed) IN
      IF ~parsed.ok THEN ParseFail
      ELSE IF parsed.v.t = "string" THEN JSONparse(parsed.v.s)
      ELSE parsed

\* the effect of ToolFallback for toolName "thought_card"
effect(argsText, isVisible, tc, reg) ==
  LET parsed == parsedCardData(argsText) IN
    IF ~parsed.ok THEN Skip(tc, reg) ELSE processCard(parsed.v, isVisible, tc, reg)

\* thought cards as the backend sends them
ToolCard(cardType, content, step, toolName) ==
  Obj(<<<<"card_type", Str(<<cardType>>)>>, <<"content", content>>, <<"step", Num(step)>>,
        <<"tool_name", toolName>>>>)

Cards ==
  {ToolCard("thinking", Str(S1), 1, Undefined),
   ToolCard("thinking", Str(S2), 2, Undefined),
   ToolCard("executing", Str(S1), 2, Str(<<"search">>)),
   ToolCard("tool_result", Str(S1), 2, Str(<<"search">>)),
   ToolCard("final_answer", Str(S1), 3, Undefined)}

\* cards without content, with empty or non-text content, without card_type
BrokenCards ==
  {Obj(<<<<"card_type", Str(<<"thinking">>)>>, <<"step", Num(1)>>>>),
   ToolCard("thinking", Str(<<>>), 1, Undefined),
   ToolCard("thinking", Num(5), 1, Undefined),
   Obj(<<<<"content", Str(S1)>>, <<"step", Num(1)>>>>)}

\* the argument text of a tool call: a card as JSON, the same as a JSON
\* string of that text, and texts that are no card
ArgsTexts ==
  {JSONstringify(c).s : c \in Cards \cup BrokenCards}
  \cup {JSONstringify(JSONstringify(c)).s :
          c \in {ToolCard("thinking", Str(S1), 1, Undefined), ToolCard("thinking", Str(<<>>), 1, Undefined)}}
  \cup {<<>>, <<"SP">>, <<"x">>, <<"null">>, <<"{", "}">>, <<"QUOTE", "5", "QUOTE">>,
        <<"QUOTE", "x", "QUOTE">>, <<"QUOTE", "null", "QUOTE">>,
        <<"SP">> \o JSONstringify(ToolCard("thinking", Str(S1), 1, Undefined)).s \o <<"LF">>}

\* the argument texts of tool calls that arrive whole
CardTexts ==
  {JSONstringify(c).s :
     c \in {ToolCard("thinking", Str(S1), 1, Undefined), ToolCard("thinking", Str(S2), 2, Undefined),
            ToolCard("executing", Str(S1), 2, Str(<<"search">>)),
            ToolCard("final_answer", Str(S1), 3, Undefined),
            ToolCard("thinking", Str(<<>>), 1, Undefined)}}

\* tool calls with the card types handleStreamingData knows, next to the
\* tool-call path's own
KindTexts ==
  {JSONstringify(c).s :
     c \in {ToolCard("thinking", Str(S1), 1, Undefined),
            ToolCard("final_answer", Str(S1), 3, Undefined),
            ToolCard("complete", Str(S1), 3, Undefined),
            ToolCard("progress", Undefined, 2, Undefined),
            Set(ToolCard("progress", Str(S1), 2, Undefined), "progress", Num(50)),
            ToolCard("live_text", Str(S2), 2, Undefined),
            Set(ToolCard("file_writing", Str(S1), 2, Undefined), "filename", Str(<<"a.txt">>)),
            ToolCard("file_complete", Str(S1), 2, Undefined)}}

\* no ToolFallback is mounted
\* args: the whole argument text, len: how much of it has arrived (argsText),
\* result: the result prop is set; of the latest run of the effect: event
\* ("args" or "result", the dependency that changed) and log (the calls it
\* made); runs: the runs of the effect so far
NoTool ==
  [args |-> <<>>, len |-> 0, result |-> FALSE, event |-> "none", log |-> <<>>, runs |-> 0]

argsText == SubSeq(tool.args, 1, tool.len)

\* a thought_card tool call appears with the first n characters of its
\* argument text: ToolFallback mounts and its effect runs
mount(text, n) ==
  /\ Len(thoughtCard.steps) < MaxSteps
  /\ LET e == effect(SubSeq(text, 1, n), rendered.isVisible, thoughtCard, registry) IN
       /\ thoughtCard' = e.tc
       /\ registry' = e.reg
       /\ stepManagers' = notified(stepManagers, registry, e)
       /\ tool' = [args |-> text, len |-> n, result |-> FALSE, event |-> "args", log |-> e.log,
                   runs |-> 1]
  /\ UNCHANGED rendered
  /\ UNCHANGED tvars

\* n more characters of the argument text arrive: ToolFallback renders
\* again and, argsText having changed, its effect runs again
argsTextGrows(n) ==
  /\ tool.event # "none"
  /\ n > 0 /\ tool.len + n <= Len(tool.args)
  /\ Len(thoughtCard.steps) < MaxSteps
  /\ rendered' = view(thoughtCard)
  /\ LET e == effect(SubSeq(tool.args, 1, tool.len + n), thoughtCard.isVisible, thoughtCard, registry) IN
       /\ thoughtCard' = e.tc
       /\ registry' = e.reg
       /\ stepManagers' = notified(stepManagers, registry, e)
       /\ tool' = [tool EXCEPT !.len = @ + n, !.event = "args", !.log = e.log,
                               !.runs = @ + 1]
  /\ UNCHANGED tvars

\* the result of the tool call arrives: result is a dependency of the effect
resultArrives ==
  /\ tool.event # "none"
  /\ tool.len = Len(tool.args)
  /\ ~tool.result
  /\ Len(thoughtCard.steps) < MaxSteps
  /\ rendered' = view(thoughtCard)
  /\ LET e == effect(argsText, thoughtCard.isVisible, thoughtCard, registry) IN
       /\ thoughtCard' = e.tc
       /\ registry' = e.reg
       /\ stepManagers' = notified(stepManagers, registry, e)
       /\ tool' = [tool EXCEPT !.result = TRUE, !.event = "result", !.log = e.log,
                               !.runs = @ + 1]
  /\ UNCHANGED tvars

\* the events handleStreamingData is called with
StreamCard(cardType, content) ==
  Obj(<<<<"type", Str(<<"thought_card">>)>>, <<"card_type", Str(<<cardType>>)>>,
        <<"content", content>>>>)

StreamEvents ==
  {StreamCard("thinking", Str(S1)), StreamCard("executing", Str(S1)),
   StreamCard("complete", Str(S1)), StreamCard("tool_result", Str(S1)),
   Set(StreamCard("progress", Undefined), "progress", Num(50)),
   StreamCard("progress", Undefined),
   StreamCard("live_text", Str(S2)),
   Set(StreamCard("live_text", Str(S2)), "typing", Bool(FALSE)),
   Set(StreamCard("file_writing", Str(S1)), "filename", Str(<<"a.txt">>)),
   StreamCard("final_answer", Str(S1)),
   Obj(<<<<"type", Str(<<"step_start">>)>>, <<"step", Num(1)>>>>),
   Obj(<<<<"type", Str(<<"final_message">>)>>>>),
   Obj(<<<<"type", Str(<<"new_message_start">>)>>>>)}

\* the stream events explored together with tool calls
SomeEvents ==
  {StreamCard("live_text", Str(S2)),
   Set(StreamCard("file_writing", Str(S1)), "filename", Str(<<"a.txt">>)),
   Obj(<<<<"type", Str(<<"step_start">>)>>, <<"step", Num(1)>>>>),
   Obj(<<<<"type", Str(<<"final_message">>)>>>>)}

\* the record updateFileWriting is called with
fileData(d) ==
  Obj(<<<<"filename", Get(d, "filename")>>, <<"file_path", Get(d, "file_path")>>,
        <<"file_type", Get(d, "file_type")>>, <<"content", Get(d, "content")>>,
        <<"progress", Get(d, "progress")>>, <<"writing", Get(d, "writing")>>,
        <<"size", Get(d, "size")>>>>)

\* the body of handleStreamingData after its two guards
dispatch(d, seen, tc) ==
  LET type == Get(d, "type")
      cardType == Get(d, "card_type")
      content == Get(d, "content")
      meta == Get(d, "meta")
  IN CASE type = Str(<<"thought_card">>) ->
         (CASE cardType = Str(<<"thinking">>) ->
                 addStep(IF ~seen.isVisible THEN startThinking(tc, Str(<<"Starting analysis...">>)) ELSE tc,
                         content, meta, "thinking")
            [] cardType = Str(<<"executing">>) -> addStep(tc, content, meta, "executing")
            [] cardType = Str(<<"complete">>) -> complete(addStep(tc, content, meta, "complete"))
            [] cardType = Str(<<"progress">>) ->
                 setProgress(tc, IF Truthy(Get(d, "progress")) THEN Get(d, "progress").n ELSE 0)
            [] cardType = Str(<<"live_text">>) ->
                 updateLiveText(tc, content, Get(d, "typing") # Bool(FALSE))
            [] cardType \in {Str(<<"file_writing">>), Str(<<"file_complete">>)} ->
                 updateFileWriting(tc, fileData(d))
            [] OTHER -> addStep(tc, content, meta, "step"))
       [] type = Str(<<"step_start">>) ->
            addStep(IF ~seen.isVisible THEN startThinking(tc, Str(<<"Processing your request...">>)) ELSE tc,
                    Str(<<"Starting step ", ToString(Get(d, "step").n), "...">>), Undefined, "thinking")
       [] type = Str(<<"final_message">>) -> complete(tc)
       [] OTHER -> tc

\* handleStreamingData(data) of thought-card-context.tsx
handleStreamingData(d) ==
  /\ Len(thoughtCard.steps) < MaxSteps
  /\ LET type == Get(d, "type")
         t1 == IF type = Str(<<"new_message_start">>)
                  \/ (type = Str(<<"step_start">>) /\ rendered.status = "completed")
               THEN reset(thoughtCard) ELSE thoughtCard
     IN thoughtCard' = IF rendered.status = "completed" /\ type # Str(<<"new_message_start">>)
                       THEN t1 ELSE dispatch(d, rendered, t1)
  /\ UNCHANGED <<rendered, registry, tool, stepManagers>>
  /\ UNCHANGED tvars

\* React renders with the state the setters produced
render ==
  /\ rendered # view(thoughtCard)
  /\ rendered' = view(thoughtCard)
  /\ UNCHANGED <<thoughtCard, registry, tool, stepManagers>>
  /\ UNCHANGED tvars

\* the interval started by startThinking fires
tick ==
  /\ thoughtCard.timer
  /\ thoughtCard.thinkingTime < MaxTime
  /\ thoughtCard' = [thoughtCard EXCEPT !.thinkingTime = @ + 1]
  /\ UNCHANGED <<rendered, registry, tool, stepManagers>>
  /\ UNCHANGED tvars

\* window 'beforeunload': thoughtCard.reset()
handleBeforeUnload ==
  /\ thoughtCard' = reset(thoughtCard)
  /\ tool' = [tool EXCEPT !.event = "unload", !.log = <<Call("reset", "")>>]
  /\ UNCHANGED <<rendered, registry, stepManagers>>
  /\ UNCHANGED tvars

\* a StepManager mounts: its effect adds updateSteps to stepListeners
StepManagerMounts(m) ==
  /\ ~stepManagers[m].listening
  /\ stepManagers' = [stepManagers EXCEPT ![m] = [InitialStepManager EXCEPT !.listening = TRUE]]
  /\ UNCHANGED <<thoughtCard, rendered, registry, tool>>
  /\ UNCHANGED tvars

\* a StepManager unmounts: the effect's cleanup deletes its listener
StepManagerUnmounts(m) ==
  /\ stepManagers[m].listening
  /\ stepManagers' = [stepManagers EXCEPT ![m] = InitialStepManager]
  /\ UNCHANGED <<thoughtCard, rendered, registry, tool>>
  /\ UNCHANGED tvars

--------------------------------------------------------------------------
Init ==
  /\ handler \in Handlers
  /\ phase = "request"
  /\ rq = NoRequest
  /\ thoughtCard = InitialThoughtCard
  /\ rendered = view(InitialThoughtCard)
  /\ registry = InitialRegistry
  /\ tool = NoTool
  /\ stepManagers = [m \in Managers |-> InitialStepManager]
  /\ input = <<>>
  /\ pump = [p \in Pumps |-> IdlePump]
  /\ data = NoData
  /\ seq = IdleSeq
  /\ http = [status |-> 0, body |-> <<>>]

Next ==
  \/ \E body \in SomeBodies : POST(body)
  \/ \E status \in BackendStatuses : respondStatus(status)
  \/ fetchFails
  \/ \E bytes \in Inputs : respondStream(bytes)
  \/ \E p \in Pumps, n \in 1..MaxLen : pumpRead(p, n)
  \/ \E p \in Pumps : pumpDone(p)
  \/ \E p \in Pumps : pumpReadFails(p)
  \/ \E p \in Pumps : cancel(p)
  \/ \E d \in OkResponses \cup ErrResponses : respondJson(d)
  \/ seqResume
  \/ seqCancel

Spec == Init /\ [][Next]_vars

\* two requests answered with the same backend bytes, chunked independently
NextPair ==
  \/ \E body \in SomeBodies : POST(body)
  \/ \E bytes \in Inputs : respondStreamTwice(bytes)
  \/ \E p \in Pumps, n \in 1..MaxLen : pumpRead(p, n)
  \/ \E p \in Pumps : pumpDone(p)

SpecPair == Init /\ [][NextPair]_vars

\* every request body, with a few backend answers
SomeInputs == {<<>>, <<100, 10>>}
SomeResponses ==
  {d \in OkResponses \cup ErrResponses :
     /\ d.usage = Undefined /\ d.message = Undefined
     /\ d.parts \in {Undefined, Arr(<<TextPart(Str(S1))>>)}
     /\ d.error \in {Undefined, Obj(<<<<"message", Str(<<"rate limited">>)>>>>)}}

NextRequest ==
  \/ \E body \in RequestBodies : POST(body)
  \/ \E status \in BackendStatuses : respondStatus(status)
  \/ fetchFails
  \/ \E bytes \in SomeInputs : respondStream(bytes)
  \/ \E p \in Pumps, n \in 1..MaxLen : pumpRead(p, n)
  \/ \E p \in Pumps : pumpDone(p)
  \/ \E d \in SomeResponses : respondJson(d)
  \/ seqResume

SpecRequest == Init /\ [][NextRequest]_vars

\* the client alone: tool calls that arrive whole, and stream events
InitClient == Init /\ handler = "part_000"

NextClient ==
  \/ \E text \in CardTexts : mount(text, Len(text))
  \/ resultArrives
  \/ \E d \in SomeEvents : handleStreamingData(d)
  \/ render
  \/ tick
  \/ handleBeforeUnload

SpecClient == InitClient /\ [][NextClient]_vars

\* one tool call whose argument text arrives in pieces
NextTyping ==
  \/ tool = NoTool /\ \E text \in ArgsTexts : \E n \in 0..Len(text) : mount(text, n)
  \/ \E n \in 1..Len(tool.args) : argsTextGrows(n)
  \/ resultArrives
  \/ render
  \/ tick

SpecTyping == InitClient /\ [][NextTyping]_vars

\* handleStreamingData alone, with every kind of event
NextStream ==
  \/ \E d \in StreamEvents : handleStreamingData(d)
  \/ render
  \/ tick
  \/ handleBeforeUnload

SpecStream == InitClient /\ [][NextStream]_vars

\* the tool-call path alone: thought cards arriving as tool calls, one
\* after the other
NextCalls ==
  \/ \E text \in CardTexts : mount(text, Len(text))
  \/ render
  \/ tick

SpecCalls == InitClient /\ [][NextCalls]_vars

\* the tool-call path and the StepManager components listening to the
\* registry
NextManagers ==
  \/ \E text \in CardTexts : mount(text, Len(text))
  \/ render
  \/ \E m \in Managers : StepManagerMounts(m)
  \/ \E m \in Managers : StepManagerUnmounts(m)

SpecManagers == InitClient /\ [][NextManagers]_vars

\* the card types of both vocabularies in both paths: as tool calls and as
\* events of handleStreamingData
KindEvents ==
  {d \in StreamEvents :
     Get(d, "card_type") \in {Str(<<"thinking">>), Str(<<"complete">>), Str(<<"final_answer">>),
                              Str(<<"progress">>), Str(<<"live_text">>), Str(<<"file_writing">>)}}

NextKinds ==
  \/ \E text \in KindTexts : mount(text, Len(text))
  \/ \E d \in KindEvents : handleStreamingData(d)
  \/ render

SpecKinds == InitClient /\ [][NextKinds]_vars

--------------------------------------------------------------------------
\* what the claims speak of
payload(frame) == SubSeq(frame, 3, Len(frame) - 1)
datas(out) == [k \in 1..Len(out) |-> out[k].data]
endFrames(out) == {k \in 1..Len(out) : out[k].data[1] = "d"}
endChunks(out) == {k \in 1..Len(out) : out[k].data[1] = 100}
\* the lines of the backend body, complete ones and the unterminated rest
bodyLines == split(input)
completeLines == {bodyLines[k] : k \in 1..(Len(bodyLines) - 1)}
WellFormedParts(d) ==
  /\ hasParts(d)
  /\ \A k \in 1..Len(d.parts.a) :
       Get(d.parts.a[k], "type") \in {Str(<<"text">>), Str(<<"thought_card">>)}
FrameOfPart(frame, part, index) ==
  IF Get(part, "type") = Str(<<"text">>)
  THEN /\ frame[1] = "0"
       /\ Get(part, "text").t = "string" => JSONparse(payload(frame)).v = Get(part, "text")
  ELSE /\ frame[1] = "9"
       /\ LET e == JSONparse(payload(frame)) IN
            /\ e.ok
            /\ Get(e.v, "toolCallId") = Str(<<"thought_", ToString(index)>>)
            /\ Get(e.v, "toolName") = Str(<<"thought_card">>)
            /\ Get(e.v, "args").t = "string"
            /\ JSONparse(Get(e.v, "args").s).v = part

\* C1: Case B, ok true, non-empty parts of type text or thought_card: the
\* frames emitted so far are the frames of parts 1..k in the order of parts
\* (tag 0 or 9, the card frames numbered by their index), the terminal d
\* frame comes only after all of them, a completed run has emitted exactly
\* len(parts) content frames and one d frame, and only a consumer abort
\* stops a run short.
C1_PartsThenTerminal ==
  (phase = "B" /\ WellFormedParts(data)) =>
    LET n == Len(data.parts.a) IN
      /\ Len(seq.out) <= n + 1
      /\ \A k \in 1..Len(seq.out) :
           IF k <= n THEN FrameOfPart(seq.out[k].data, data.parts.a[k], k - 1)
           ELSE seq.out[k].data[1] = "d"
      /\ seq.pc = "done" <=> Len(seq.out) = n + 1
      /\ seq.pc = "done" <=> seq.stream = "closed"
      /\ seq.pc = "failed" => seq.stream = "cancelled"

C1_Witness ==
  /\ phase = "B" /\ seq.pc = "done"
  /\ data.parts = Arr(<<CardPart("final_answer", S2, 2), TextPart(Str(S1))>>)

\* C2 as claimed: ok false gives no frame and status 500 with body
\* {error: m}, m being exactly the backend's error.message.
C2_Verbatim ==
  (phase = "error" /\ rq.cause = "ok_false") =>
    /\ seq = IdleSeq /\ \A p \in Pumps : pump[p] = IdlePump
    /\ http.status = 500
    /\ JSONparse(http.body).v = Obj(<<<<"error", Get(data.error, "message")>>>>)

\* C2 amended: ok false gives no frame and status 500 with body {error: m},
\* m being the backend's error.message when that is a non-empty string and
\* the text 'Backend returned error' when it is absent or empty.
C2_MessageOrDefault ==
  (phase = "error" /\ rq.cause = "ok_false") =>
    /\ seq = IdleSeq /\ \A p \in Pumps : pump[p] = IdlePump
    /\ http.status = 500
    /\ LET m == Get(data.error, "message") IN
         JSONparse(http.body).v =
           Obj(<<<<"error", IF m.t = "string" /\ m.s # <<>> THEN m
                            ELSE Str(<<"Backend returned error">>)>>>>)

C2_Witness ==
  phase = "error" /\ rq.cause = "ok_false" /\ Get(data.error, "message") = Str(S2) /\ http.status = 500

\* the backend body without its empty and white-space-only lines
RECURSIVE nonBlank(_)
nonBlank(lines) ==
  IF lines = <<>> THEN <<>>
  ELSE (IF ~trim(TextDecoderWhole(Head(lines))) THEN <<>>
        ELSE IF Len(lines) = 1 THEN Head(lines) ELSE Append(Head(lines), 10))
       \o nonBlank(Tail(lines))

\* C3 as claimed, read in the code's favour (empty and white-space-only
\* lines are not counted as content): Case A, a stream closed normally
\* carries the bytes of the backend body, up to one trailing newline,
\* whatever the read chunks were.
C3_Lossless ==
  \A p \in Pumps :
    (pump[p].pc = "done" /\ pump[p].stream = "closed") =>
      LET o == Flatten(datas(pump[p].out))
          b == nonBlank(bodyLines)
      IN o = b \/ o = Append(b, 10) \/ Append(o, 10) = b

\* C4 as claimed: two runs over the same backend bytes, chunked differently,
\* enqueue the same bytes and the same complete lines.
C4_BoundaryIndependent ==
  (pump[1].pc = "done" /\ pump[2].pc = "done") =>
    /\ Flatten(datas(pump[1].out)) = Flatten(datas(pump[2].out))
    /\ SelectSeq(pump[1].out, LAMBDA c : ~c.final) = SelectSeq(pump[2].out, LAMBDA c : ~c.final)

\* C5 as claimed: a chunk enqueued before done is one complete line of the
\* backend body and its newline, the carry-over buffer holds no newline
\* between reads, an unterminated fragment is enqueued only after done.
C5_CompleteLinesOnly ==
  \A p \in Pumps :
    /\ \A k \in 1..Len(pump[p].out) :
         IF pump[p].out[k].final
         THEN k = Len(pump[p].out) /\ pump[p].pc # "reading"
         ELSE \E line \in completeLines : pump[p].out[k].data = Append(line, 10)
    /\ \A i \in 1..Len(pump[p].buffer) : pump[p].buffer[i] # 10

\* C6 as claimed: every Case B frame is one line <tag>:<payload> whose
\* payload parses as JSON, also when usage, message or a text are absent.
C6_FramesParse ==
  phase = "B" =>
    \A k \in 1..Len(seq.out) :
      LET f == seq.out[k].data IN
        /\ Len(f) >= 4 /\ f[1] \in {"0", "9", "d"} /\ f[2] = ":" /\ f[Len(f)] = "LF"
        /\ \A i \in 1..(Len(f) - 1) : f[i] # "LF"
        /\ JSONparse(payload(f)).ok

\* C7 as claimed: a stream closed normally, Case A or Case B, holds exactly
\* one d frame, and it is the last frame.
C7_OneEndFrame ==
  /\ seq.stream = "closed" => endFrames(seq.out) = {Len(seq.out)} /\ seq.out # <<>>
  /\ \A p \in Pumps :
       pump[p].stream = "closed" => endChunks(pump[p].out) = {Len(pump[p].out)} /\ pump[p].out # <<>>

\* C7 amended: a Case B stream closed normally holds exactly one d frame, its
\* last; a Case A stream closed normally holds as many d frames as the
\* backend body has lines beginning with d (none when the backend sent none).
C7_EndFrameCaseB ==
  /\ seq.stream = "closed" => endFrames(seq.out) = {Len(seq.out)} /\ seq.out # <<>>
  /\ \A p \in Pumps :
       pump[p].stream = "closed" =>
         Cardinality(endChunks(pump[p].out))
           = Cardinality({k \in 1..Len(bodyLines) : bodyLines[k] # <<>> /\ bodyLines[k][1] = 100})

C7_Witness ==
  /\ pump[1].stream = "closed"
  /\ Len(pump[1].out) = 2
  /\ endChunks(pump[1].out) = {1}

\* C8 as claimed: Case A, once the consumer has cancelled the output stream
\* no exception escapes the pump: whatever it still attempts on the stream,
\* its promise does not reject.
C8_PumpNeverRejects ==
  \A p \in Pumps : pump[p].stream = "cancelled" => pump[p].pc # "rejected"

\* C9 as claimed: Case A, once the consumer has aborted, the pump enqueues
\* nothing more and issues no further reader.read().
C9_StopsAfterAbort ==
  [][\A p \in Pumps :
       pump[p].stream = "cancelled" =>
         pump'[p].out = pump[p].out /\ pump'[p].reads = pump[p].reads]_vars

\* C10 as claimed: a failed read errors an open stream, which is never
\* closed normally afterwards; with the stream already closed the failure
\* is swallowed; the error is signalled at most once.
C10_ErrorOnce ==
  \A p \in Pumps :
    pump[p].failedAt # "none" =>
      /\ pump[p].failedAt = "readable" => pump[p].stream = "errored"
      /\ pump[p].failedAt # "readable" =>
           pump[p].stream = pump[p].failedAt /\ pump[p].pc = "done" /\ pump[p].errs = 0
      /\ pump[p].errs <= 1

--------------------------------------------------------------------------
\* the request as POST parsed it, and what the one fetch carried
requestData == JSONparse(rq.body).v
requestMessages == Get(requestData, "messages").a
forwarded == Get(JSONparse(rq.calls[1]).v, "messages").a
\* POST has run and the body was a JSON object with a list of messages
accepted ==
  phase # "request" /\ JSONparse(rq.body).ok /\ Get(requestData, "messages").t = "array"
\* no stream was built and no frame was emitted
noFrames ==
  /\ seq.stream = "none" /\ seq.out = <<>>
  /\ \A p \in Pumps : pump[p].stream = "none" /\ pump[p].out = <<>>
isSystem(m) == Get(m, "role") = Str(<<"system">>)
sameMessage(f, m) ==
  /\ Get(f, "role") = Get(m, "role")
  /\ Get(m, "content").t = "string" => Get(f, "content") = Get(m, "content")

\* C11: a backend answer with a non-success status gives status 500 with a
\* JSON error body naming the status, the backend body is never read and no
\* frame is emitted; no response has both an error status and frames.
C11_StatusError ==
  /\ rq.cause = "status" =>
       /\ http.status = 500
       /\ LET e == Get(JSONparse(http.body).v, "error")
          IN e.t = "string" /\ Len(e.s) = 2 /\ e.s[1] = "Backend error: "
       /\ ~rq.bodyRead
       /\ noFrames
  /\ (http.status = 0 \/ http.status >= 400) => noFrames
  /\ ~noFrames => http.status = 200

C11_Witness ==
  phase = "error" /\ rq.cause = "status" /\ http.status = 500 /\ Len(rq.calls) = 1

\* C12: a request body that is empty, white space only or not parseable as
\* JSON gives status 500 with a JSON error body carrying the reason of the
\* failure, and no call to the backend is made.
C12_BadBodyRejected ==
  (phase # "request"
   /\ (rq.body = <<>> \/ trimText(rq.body) = <<>> \/ ~JSONparse(rq.body).ok)) =>
    /\ phase = "error"
    /\ rq.calls = <<>> /\ ~rq.bodyRead /\ noFrames
    /\ http.status = 500
    /\ Get(JSONparse(http.body).v, "error") \in
         {Str(<<"Request body is empty">>), Str(<<"Invalid JSON in request body">>),
          Str(<<"Unexpected end of JSON input">>)}

C12_Witness ==
  phase = "error" /\ rq.body = <<"{">> /\ rq.calls = <<>> /\ http.status = 500

\* C13 as claimed: when an accepted request has a system message, as its
\* system field or as a message with role system anywhere in messages, the
\* forwarded list has the system message at index 0 and the other messages
\* after it in their original order.
C13_SystemFirst ==
  (accepted /\ (Truthy(Get(requestData, "system"))
                \/ \E k \in 1..Len(requestMessages) : isSystem(requestMessages[k]))) =>
    /\ isSystem(forwarded[1])
    /\ LET others == SelectSeq(requestMessages, LAMBDA m : ~isSystem(m))
           rest == SelectSeq(Tail(forwarded), LAMBDA m : ~isSystem(m))
       IN /\ Len(rest) = Len(others)
          /\ \A k \in 1..Len(others) : sameMessage(rest[k], others[k])

\* C13 amended: when the system field of an accepted request is a non-empty
\* string, the forwarded list is the message {role system, content: that
\* field} at index 0 followed by the request's messages in their original
\* order; otherwise it is the request's messages in their original order.
\* A message with role system inside messages keeps its position.
C13_SystemFieldFirst ==
  accepted =>
    LET system == Get(requestData, "system")
        off == IF system.t = "string" /\ system.s # <<>> THEN 1 ELSE 0
    IN /\ Len(forwarded) = Len(requestMessages) + off
       /\ off = 1 => forwarded[1] = Msg("system", system)
       /\ \A k \in 1..Len(requestMessages) : sameMessage(forwarded[k + off], requestMessages[k])

C13_Witness ==
  /\ accepted /\ phase = "fetch"
  /\ Get(requestData, "system") = Str(SystemText)
  /\ Len(requestMessages) = 3 /\ isSystem(requestMessages[2])
  /\ Len(forwarded) = 4 /\ isSystem(forwarded[3])

\* C14: an accepted request makes exactly one call to the backend, whatever
\* the outcome of that call, and the call's agent_mode is 'agent' whatever
\* agent_mode the request carried; no request makes more than one call.
C14_OneCallAgentMode ==
  /\ Len(rq.calls) <= 1
  /\ accepted =>
       /\ Len(rq.calls) = 1
       /\ Get(JSONparse(rq.calls[1]).v, "agent_mode") = Str(<<"agent">>)

C14_Witness ==
  /\ accepted /\ phase = "error" /\ rq.cause \in {"status", "network"}
  /\ Get(requestData, "agent_mode") = Str(<<"chat">>)
  /\ Len(rq.calls) = 1

--------------------------------------------------------------------------
\* the card an argument text stands for, when it is the JSON text of an
\* object
cardOf(text) == JSONparse(text).v
\* the text of a JSON object that is a thinking card with content
thinkingObject(text) ==
  /\ text # <<>> /\ text[1] = "{" /\ text[Len(text)] = "}"
  /\ JSONparse(text).ok
  /\ Get(cardOf(text), "card_type") = Str(<<"thinking">>)
  /\ Get(cardOf(text), "content").t = "string" /\ Get(cardOf(text), "content").s # <<>>
firstThinking(text) == thinkingObject(text) /\ Get(cardOf(text), "step") = Num(1)
\* an argument text the consumer has to drop
dropped(text) ==
  LET trimmed == trimText(text)
      once == JSONparse(trimmed)
      twice == IF once.ok /\ once.v.t = "string" THEN JSONparse(once.v.s) ELSE once
  IN \/ text = <<>> \/ trimmed = <<>>
     \/ (trimmed[1] # "{" /\ trimmed[1] # "QUOTE")
     \/ ~once.ok \/ ~twice.ok
     \/ ~Truthy(Get(twice.v, "content")) \/ ~Truthy(Get(twice.v, "card_type"))
\* this step mounts ToolFallback for a new tool call
newCall == tool'.runs = 1 /\ mount(tool'.args, tool'.len)
\* this step is a run of ToolFallback's effect, on a new tool call or on the
\* mounted one
effectRuns == tool'.runs # tool.runs \/ newCall
addSteps(log) == {k \in 1..Len(log) : log[k].call = "addStep"}

\* C15: while the text of a thinking card's JSON object arrives prefix by
\* prefix, no fragment before the last makes the effect call anything or
\* change ThoughtCardState or the StepRegistry, and the run on the complete
\* text makes exactly one addStep call, of type thinking.
C15_OneAddStepAtEnd ==
  (tool.event = "args" /\ thinkingObject(tool.args)) =>
    IF tool.len < Len(tool.args)
    THEN tool.log = <<>> /\ thoughtCard = InitialThoughtCard /\ registry = InitialRegistry
    ELSE /\ Cardinality(addSteps(tool.log)) = 1
         /\ \A k \in addSteps(tool.log) : tool.log[k].type = "thinking"
         /\ Len(thoughtCard.steps) = 1 /\ thoughtCard.steps[1].type = "thinking"

C15_Witness ==
  /\ tool.event = "args" /\ thinkingObject(tool.args)
  /\ tool.len = Len(tool.args) /\ tool.runs >= 4
  /\ Len(thoughtCard.steps) = 1

\* C16: a run of the effect on an argument text that is empty, white space
\* only, does not start with { or ", fails the first or the second parse, or
\* parses to a value without content or card_type, calls nothing and leaves
\* ThoughtCardState and the StepRegistry as they were.
C16_DroppedUnchanged ==
  [][(effectRuns /\ dropped(SubSeq(tool'.args, 1, tool'.len))) =>
       (tool'.log = <<>> /\ UNCHANGED <<thoughtCard, registry>>)]_vars

C16_Witness ==
  /\ tool.event = "args" /\ tool.len = Len(tool.args)
  /\ JSONparse(tool.args).ok /\ cardOf(tool.args).t = "object"
  /\ Get(cardOf(tool.args), "card_type") = Str(<<"thinking">>)
  /\ Get(cardOf(tool.args), "content") = Undefined
  /\ tool.log = <<>> /\ thoughtCard = InitialThoughtCard /\ registry = InitialRegistry

\* C17: when the effect processes a thinking card of step 1 while the status
\* is completed, afterwards the steps are exactly that one step, the status
\* is processing, and the registry holds only the entry of step 1 and no
\* final answer.
C17_FreshTurn ==
  [][(thoughtCard.status = "completed" /\ effectRuns
      /\ tool'.len = Len(tool'.args) /\ firstThinking(tool'.args)) =>
       (/\ thoughtCard'.steps = <<[text |-> Get(cardOf(tool'.args), "content"),
                                   meta |-> Undefined, type |-> "thinking"]>>
        /\ thoughtCard'.status = "processing"
        /\ registry' = [stepData |-> <<<<Num(1), Obj(<<<<"thinking", Get(cardOf(tool'.args), "content")>>>>)>>>>,
                        finalAnswer |-> Null])]_vars

C17_Witness ==
  /\ tool.event = "args" /\ tool.runs = 1 /\ firstThinking(tool.args)
  /\ rendered = [isVisible |-> TRUE, status |-> "completed"]
  /\ ~thoughtCard.isVisible
  /\ Len(thoughtCard.steps) = 1 /\ thoughtCard.status = "processing"
  /\ registry.finalAnswer = Null /\ Len(registry.stepData) = 1

\* C18 as claimed: once the status is completed, a thought card other than a
\* thinking card of step 1, a step_start and a final_message leave the steps,
\* the status, the live text and the file-write record unchanged, in the
\* effect of ToolFallback and in handleStreamingData.
C18_IgnoredAfterCompleted ==
  [][(/\ thoughtCard.status = "completed"
      /\ \/ newCall /\ ~firstThinking(tool'.args)
         \/ \E d \in SomeEvents : handleStreamingData(d)) =>
       UNCHANGED <<thoughtCard.steps, thoughtCard.status, thoughtCard.liveText,
                   thoughtCard.fileWriting>>]_vars

\* C19: from every reachable state reset gives the initial ThoughtCardState:
\* not visible, processing, progress 0, thinking time 0, no steps, empty live
\* text, not typing, no file-write record, no timer; reset of the initial
\* state is the initial state and reset after reset changes nothing.
C19_ResetToInitial ==
  /\ reset(thoughtCard) =
       [isVisible |-> FALSE, status |-> "processing", progress |-> 0, thinkingTime |-> 0,
        steps |-> <<>>, liveText |-> Str(<<>>), isTyping |-> FALSE, fileWriting |-> Null,
        timer |-> FALSE]
  /\ reset(thoughtCard) = InitialThoughtCard
  /\ reset(InitialThoughtCard) = InitialThoughtCard
  /\ reset(reset(thoughtCard)) = reset(thoughtCard)

C19_Witness ==
  /\ tool.event = "unload" /\ thoughtCard = InitialThoughtCard
  /\ rendered = [isVisible |-> TRUE, status |-> "completed"]
  /\ registry.finalAnswer # Null

\* C20 as claimed: from every reachable state the effect processing a
\* thinking card of step 1 leaves the ThoughtCardState and the StepRegistry
\* that processing it in the initial state leaves.
C20_SameAsFromInitial ==
  [][(newCall /\ tool'.len = Len(tool'.args) /\ firstThinking(tool'.args)) =>
       LET fresh == effect(tool'.args, FALSE, InitialThoughtCard, InitialRegistry)
       IN thoughtCard' = fresh.tc /\ registry' = fresh.reg]_vars

--------------------------------------------------------------------------
\* the step a card leaves in the steps list
lastStep(tc) == tc.steps[Len(tc.steps)]

\* C21 as claimed: after the effect has processed a thinking card with
\* content the thought card is visible and the last step is a thinking step
\* with the card's content, whatever the state before, also when the card is
\* of step 1 and the effect has just reset.
C21_VisibleAfterThinking ==
  [][(newCall /\ tool'.len = Len(tool'.args) /\ thinkingObject(tool'.args)) =>
       (/\ thoughtCard'.isVisible
        /\ thoughtCard'.steps # <<>>
        /\ lastStep(thoughtCard').type = "thinking"
        /\ lastStep(thoughtCard').text = Get(cardOf(tool'.args), "content"))]_vars

--------------------------------------------------------------------------
\* this step is the effect of a new tool call whose card has content and a
\* card_type among types
toolCard(types) ==
  /\ newCall /\ tool'.len = Len(tool'.args)
  /\ Get(cardOf(tool'.args), "card_type") \in types
  /\ Truthy(Get(cardOf(tool'.args), "content"))
\* this step is handleStreamingData, not ignoring its event, called with
\* the thought card d
streamCard(d, types) ==
  /\ Get(d, "card_type") \in types
  /\ rendered.status # "completed"
  /\ handleStreamingData(d)
\* this step appends one step of the given type and content
appends(type, content) ==
  /\ Len(thoughtCard'.steps) = Len(thoughtCard.steps) + 1
  /\ SubSeq(thoughtCard'.steps, 1, Len(thoughtCard.steps)) = thoughtCard.steps
  /\ lastStep(thoughtCard').type = type
  /\ lastStep(thoughtCard').text = content
FinalAnswer == {Str(<<"final_answer">>)}
Complete == {Str(<<"complete">>)}

--------------------------------------------------------------------------
FrameTypes ==
  {Str(<<"progress">>), Str(<<"live_text">>), Str(<<"file_writing">>), Str(<<"file_complete">>)}
\* the fields of ThoughtCardState a card of that type may change
frameOf(cardType) ==
  CASE cardType = Str(<<"progress">>) -> {"progress"}
    [] cardType = Str(<<"live_text">>) -> {"liveText", "isTyping"}
    [] OTHER -> {"fileWriting"}
\* this step changes no field of ThoughtCardState outside fields
onlyChanges(fields) ==
  \A f \in (DOMAIN thoughtCard) \ fields : thoughtCard'[f] = thoughtCard[f]

\* C23 as claimed: a card of type progress, live_text, file_writing or
\* file_complete, arriving as a tool call or given to handleStreamingData,
\* appends no step and leaves the status: progress changes the progress only,
\* live_text the live text and the typing flag only, file_writing and
\* file_complete the file-write record only.
C23_FrameEffects ==
  [][/\ toolCard(FrameTypes) => onlyChanges(frameOf(Get(cardOf(tool'.args), "card_type")))
     /\ \A d \in KindEvents :
          streamCard(d, FrameTypes) => onlyChanges(frameOf(Get(d, "card_type")))]_vars

--------------------------------------------------------------------------
\* C24 as claimed: whatever thought cards the tool-call path has processed,
\* the registry's final answer is set exactly when the status is completed,
\* and the registry is empty (no step entry, no final answer) exactly when
\* the steps list is empty.
C24_RegistryAgrees ==
  /\ registry.finalAnswer # Null <=> thoughtCard.status = "completed"
  /\ (registry.stepData = <<>> /\ registry.finalAnswer = Null) <=> thoughtCard.steps = <<>>

--------------------------------------------------------------------------
\* C25 as claimed: a card the effect dispatches without resetting is
\* appended at the end of the steps list and the steps of the earlier cards
\* stay, in their order.
C25_AppendOnly ==
  [][(newCall /\ tool'.log # <<>> /\ calls(tool'.log, "reset") = {}) =>
       /\ Len(thoughtCard'.steps) = Len(thoughtCard.steps) + 1
       /\ SubSeq(thoughtCard'.steps, 1, Len(thoughtCard.steps)) = thoughtCard.steps
       /\ lastStep(thoughtCard').text = Get(cardOf(tool'.args), "content")]_vars

--------------------------------------------------------------------------
\* the Case B frames that are tool-call envelopes, and what they carry
envelopes == {k \in 1..Len(seq.out) : seq.out[k].data[1] = "9"}
envelope(k) == JSONparse(payload(seq.out[k].data)).v
\* the part a tool-call envelope was made for: thought_<index> names it
partOf(k) ==
  data.parts.a[CHOOSE i \in 1..Len(data.parts.a) :
                 Get(envelope(k), "toolCallId") = Str(<<"thought_", ToString(i - 1)>>)]

\* C26: the args string of the tool-call envelope the translator emits for a
\* thought card part with content and card_type, parsed as the consumer
\* parses an argument text, is a card equal to the part; the JSON string of
\* that args string (the card encoded twice) parses to the same card.
C26_RoundTrip ==
  phase = "B" =>
    \A k \in envelopes :
      LET args == Get(envelope(k), "args")
          once == parsedCardData(args.s)
          twice == parsedCardData(JSONstringify(args).s)
      IN /\ args.t = "string"
         /\ once.ok /\ once.v = partOf(k)
         /\ twice.ok /\ twice.v = once.v
         /\ Truthy(Get(once.v, "content")) /\ Truthy(Get(once.v, "card_type"))

C26_Witness ==
  /\ phase = "B" /\ seq.pc = "done"
  /\ data.parts = Arr(<<CardPart("final_answer", S2, 2), CardPart("thinking", S1, 1)>>)
  /\ envelopes = {1, 2}
  /\ parsedCardData(Get(envelope(1), "args").s).v = CardPart("final_answer", S2, 2)

--------------------------------------------------------------------------
\* the messages of the request in the forwarded list, after the message made
\* of the system field
forwardedMessages ==
  LET system == Get(requestData, "system")
  IN IF system.t = "string" /\ system.s # <<>> THEN Tail(forwarded) ELSE forwarded
\* the text field of a part, and what stands for a part's text in the code:
\* the text field, or the content field when there is no text
textField(c) == IF Get(c, "text").t = "string" THEN Get(c, "text").s ELSE <<>>
textOrContent(c) ==
  IF textField(c) # <<>> THEN textField(c)
  ELSE IF Get(c, "content").t = "string" THEN Get(c, "content").s ELSE <<>>

\* C27 as claimed: apart from a prepended system message the forwarded
\* messages are the request's messages one to one and in order, each with
\* its role, a string content unchanged, a multi-part content replaced by the
\* concatenation in part order of the parts' text fields.
C27_TextsConcatenated ==
  accepted =>
    /\ Len(forwardedMessages) = Len(requestMessages)
    /\ \A k \in 1..Len(requestMessages) :
         LET content == Get(requestMessages[k], "content") IN
           /\ Get(forwardedMessages[k], "role") = Get(requestMessages[k], "role")
           /\ content.t = "string" => Get(forwardedMessages[k], "content") = content
           /\ content.t = "array" =>
                Get(forwardedMessages[k], "content")
                  = Str(Flatten([j \in 1..Len(content.a) |-> textField(content.a[j])]))

\* C27 amended: the same, a multi-part content being replaced by the
\* concatenation in part order of, for each part, its text field or, when
\* the part has no text or an empty one, its content field (nothing for a
\* part with neither).
C27_TextOrContentConcatenated ==
  accepted =>
    /\ Len(forwardedMessages) = Len(requestMessages)
    /\ \A k \in 1..Len(requestMessages) :
         LET content == Get(requestMessages[k], "content") IN
           /\ Get(forwardedMessages[k], "role") = Get(requestMessages[k], "role")
           /\ content.t = "string" => Get(forwardedMessages[k], "content") = content
           /\ content.t = "array" =>
                Get(forwardedMessages[k], "content")
                  = Str(Flatten([j \in 1..Len(content.a) |-> textOrContent(content.a[j])]))

C27_Witness ==
  /\ accepted /\ phase = "fetch"
  /\ Get(requestData, "system") = Str(SystemText)
  /\ Len(requestMessages) = 1 /\ Len(forwarded) = 2
  /\ Get(requestMessages[1], "content").t = "array"
  /\ Len(Get(requestMessages[1], "content").a) = 4
  /\ forwarded[2] = Msg("assistant", Str(S1 \o S2 \o <<"ok">>))

--------------------------------------------------------------------------
\* this step is the effect running again for the mounted tool call, its
\* argument text complete and the same as in the run before
runsAgain == tool'.runs = tool.runs + 1 /\ tool'.args = tool.args /\ tool'.len = tool.len

\* C28 as claimed: when the effect runs again for the same tool call with
\* the same complete argument text, it calls neither addStep nor reset nor
\* clearAllSteps, and the steps list stays as it was.
C28_RunsOnce ==
  [][runsAgain =>
       (/\ calls(tool'.log, "addStep") = {}
        /\ calls(tool'.log, "reset") = {}
        /\ calls(tool'.log, "clearAllSteps") = {}
        /\ UNCHANGED thoughtCard.steps)]_vars

--------------------------------------------------------------------------
\* C29 as claimed: the thinking time advances only while the status is
\* processing; once complete() has set the status to completed no tick of
\* the timer changes it.
C29_TimeOnlyWhileProcessing ==
  [][thoughtCard'.thinkingTime > thoughtCard.thinkingTime =>
       thoughtCard.status = "processing"]_vars

--------------------------------------------------------------------------
\* the registry operations (clearAllSteps, addStepData) of an effect run
registryCalls(log) ==
  Cardinality(calls(log, "clearAllSteps")) + Cardinality(calls(log, "addStepData"))

\* C30: a run of the effect calls the listener of every StepManager
\* subscribed at that moment once for each registry operation it makes
\* (clearAllSteps, addStepData), after the operation has changed the
\* registry: when the run has made an operation, the snapshot of every such
\* StepManager (steps, currentFinalAnswer) is the registry's step map and
\* final answer; a StepManager that is not subscribed is not called.
C30_ListenersNotified ==
  [][newCall =>
       \A m \in Managers :
         IF stepManagers[m].listening
         THEN /\ stepManagers'[m].calls = registryCalls(tool'.log)
              /\ registryCalls(tool'.log) > 0 =>
                   /\ stepManagers'[m].steps = registry'.stepData
                   /\ stepManagers'[m].currentFinalAnswer = registry'.finalAnswer
         ELSE stepManagers'[m] = InitialStepManager]_vars

C30_Witness ==
  /\ tool.event = "args" /\ Get(cardOf(tool.args), "card_type") = Str(<<"final_answer">>)
  /\ stepManagers[1].listening /\ stepManagers[1].calls = 1
  /\ stepManagers[1].currentFinalAnswer = registry.finalAnswer
  /\ registry.finalAnswer = Str(S1)
  /\ stepManagers[1].steps = registry.stepData /\ Len(registry.stepData) = 1
  /\ stepManagers[1].isProcessComplete
  /\ stepManagers[2].listening /\ stepManagers[2].calls = 0
  /\ stepManagers[2].currentFinalAnswer = Null
====
